---- MODULE Spec2Model ----
(***************************************************************************)
(* astcompare.js: walk the original source tree for .js files, pair each   *)
(* with its counterpart in the modified tree, parse both with acorn,       *)
(* compare the two trees with deep-diff while filtering position keys,     *)
(* report every variation and (with --debug) save the trees and the diff.  *)
(*                                                                         *)
(* Strings are sequences of one-character strings, so that path.join,      *)
(* path.normalize, path.extname and String.prototype.replace are computed  *)
(* character by character as Node computes them.                           *)
(***************************************************************************)
EXTENDS Integers, Sequences, FiniteSets, TLC

VARIABLES
    originalSource,   \* options.originalSource
    modifiedSource,   \* options.modifiedSource
    jsFilesDir,       \* options.jsFilesDir, a list of subdirectory names
    debug,            \* options.debug
    fs,               \* the file system: normalized path -> entry
    directories,      \* the walk's stack of directories still to list
    files,            \* the .js files found, in discovery order
    idx,              \* position of the for..of loop over files
    originalVersion,
    modifiedVersion,
    originalAst,
    modifiedAst,
    differences,      \* result of diff(): [defined, list]
    written,          \* successful fs.writeFileSync calls, in order
    stderr,           \* console.error lines
    stdout,           \* verbose() lines (the model runs with --verbose)
    exitCode,         \* -1 while running, else the process exit status
    pc

vars == <<originalSource, modifiedSource, jsFilesDir, debug, fs, directories,
          files, idx, originalVersion, modifiedVersion, originalAst,
          modifiedAst, differences, written, stderr, stdout, exitCode, pc>>

(***************************************************************************)
(* Bounds of the model.                                                    *)
(***************************************************************************)
MaxRootLen == 3     \* longest --originalSource / --modifiedSource string
MaxDepth == 1       \* nesting depth of the directory trees that are walked
MaxArrLen == 1      \* longest array inside the compared trees
NumSubdirs == 2     \* number of --jsFilesDir subdirectories in a full run

(***************************************************************************)
(* Strings                                                                 *)
(***************************************************************************)
SLASH == "/"
DOT == "."
DOLLAR == "$"
AMPERSAND == "&"
APOSTROPHE == "'"
\* the grave accent: the first character of the two-character string that
\* holds a grave accent and an apostrophe
GRAVE == SubSeq("`'", 1, 1)

RECURSIVE SeqsUpTo(_, _)
\* every string over alphabet of length 0..n
SeqsUpTo(alphabet, n) ==
    IF n = 0 THEN {<< >>}
    ELSE LET shorter == SeqsUpTo(alphabet, n - 1)
         IN  shorter \cup {Append(s, c) : s \in shorter, c \in alphabet}

Drop(s, n) == SubSeq(s, n + 1, Len(s))
Take(s, n) == SubSeq(s, 1, n)

StartsWithAt(s, pat, i) ==
    /\ i + Len(pat) - 1 <= Len(s)
    /\ SubSeq(s, i, i + Len(pat) - 1) = pat

\* String.prototype.indexOf, 1-based; 0 when pat does not occur
IndexOf(s, pat) ==
    LET hits == {i \in 1..(Len(s) + 1) : StartsWithAt(s, pat, i)}
    IN  IF hits = {} THEN 0 ELSE CHOOSE i \in hits : \A j \in hits : i <= j

\* String.prototype.lastIndexOf for a single character, 1-based; 0 when absent
LastIndexOf(s, c) ==
    LET hits == {i \in 1..Len(s) : s[i] = c}
    IN  IF hits = {} THEN 0 ELSE CHOOSE i \in hits : \A j \in hits : i >= j

RECURSIVE GetSubstitution(_, _, _, _)
\* ECMAScript GetSubstitution for a string pattern (no capture groups):
\* $$ gives $, $& the match, $ with a grave accent the text before the match,
\* $ with an apostrophe the text after it; any other $ is copied
GetSubstitution(matched, str, position, replacement) ==
    IF replacement = << >> THEN << >>
    ELSE IF Head(replacement) = DOLLAR /\ Len(replacement) >= 2
         THEN LET c == replacement[2]
                  rest == Drop(replacement, 2)
              IN  CASE c = DOLLAR -> <<DOLLAR>> \o GetSubstitution(matched, str, position, rest)
                    [] c = AMPERSAND -> matched \o GetSubstitution(matched, str, position, rest)
                    [] c = GRAVE -> Take(str, position - 1)
                                    \o GetSubstitution(matched, str, position, rest)
                    [] c = APOSTROPHE -> Drop(str, position + Len(matched) - 1)
                                    \o GetSubstitution(matched, str, position, rest)
                    [] OTHER -> <<DOLLAR>> \o GetSubstitution(matched, str, position, Tail(replacement))
         ELSE <<Head(replacement)>> \o GetSubstitution(matched, str, position, Tail(replacement))

\* str.replace(pattern, replacement) with a string pattern: first occurrence only
StringReplace(str, pattern, replacement) ==
    LET pos == IndexOf(str, pattern)
    IN  IF pos = 0 THEN str
        ELSE Take(str, pos - 1)
               \o GetSubstitution(pattern, str, pos, replacement)
               \o Drop(str, pos + Len(pattern) - 1)

(***************************************************************************)
(* Node's path module (posix)                                              *)
(***************************************************************************)
RECURSIVE SplitPath(_)
\* path.split('/')
SplitPath(p) ==
    LET i == IndexOf(p, <<SLASH>>)
    IN  IF i = 0 THEN <<p>> ELSE <<Take(p, i - 1)>> \o SplitPath(Drop(p, i))

RECURSIVE JoinSegments(_)
JoinSegments(segs) ==
    IF segs = << >> THEN << >>
    ELSE IF Len(segs) = 1 THEN segs[1]
    ELSE segs[1] \o <<SLASH>> \o JoinSegments(Tail(segs))

RECURSIVE NormalizeSegments(_, _, _)
\* normalizeString: drop empty and "." segments, resolve ".."
NormalizeSegments(segs, res, allowAboveRoot) ==
    IF segs = << >> THEN res
    ELSE LET s == Head(segs)
             rest == Tail(segs)
         IN  IF s = << >> \/ s = <<DOT>>
             THEN NormalizeSegments(rest, res, allowAboveRoot)
             ELSE IF s = <<DOT, DOT>>
             THEN IF res # << >> /\ res[Len(res)] # <<DOT, DOT>>
                  THEN NormalizeSegments(rest, Take(res, Len(res) - 1), allowAboveRoot)
                  ELSE IF allowAboveRoot
                  THEN NormalizeSegments(rest, Append(res, s), allowAboveRoot)
                  ELSE NormalizeSegments(rest, res, allowAboveRoot)
             ELSE NormalizeSegments(rest, Append(res, s), allowAboveRoot)

\* path.normalize
PathNormalize(p) ==
    IF p = << >> THEN <<DOT>>
    ELSE LET isAbsolute == p[1] = SLASH
             trailingSeparator == p[Len(p)] = SLASH
             body == JoinSegments(NormalizeSegments(SplitPath(p), << >>, ~isAbsolute))
         IN  IF body = << >>
             THEN IF isAbsolute THEN <<SLASH>>
                  ELSE IF trailingSeparator THEN <<DOT, SLASH>> ELSE <<DOT>>
             ELSE (IF isAbsolute THEN <<SLASH>> ELSE << >>)
                    \o body
                    \o (IF trailingSeparator THEN <<SLASH>> ELSE << >>)

\* path.join(a, b): empty arguments are skipped, the rest joined with '/' and normalized
PathJoin(a, b) ==
    IF a = << >> /\ b = << >> THEN <<DOT>>
    ELSE IF a = << >> THEN PathNormalize(b)
    ELSE IF b = << >> THEN PathNormalize(a)
    ELSE PathNormalize(a \o <<SLASH>> \o b)

RECURSIVE StripTrailingSlashes(_)
StripTrailingSlashes(p) ==
    IF p # << >> /\ p[Len(p)] = SLASH THEN StripTrailingSlashes(Take(p, Len(p) - 1)) ELSE p

BaseName(p) ==
    LET q == StripTrailingSlashes(p)
    IN  Drop(q, LastIndexOf(q, SLASH))

\* path.extname: from the last '.' of the base name to its end; empty when there
\* is no dot, when the dot is the base name's first character, or for ".."
PathExtname(p) ==
    LET b == BaseName(p)
        d == LastIndexOf(b, DOT)
    IN  IF d = 0 \/ d = 1 \/ b = <<DOT, DOT>> THEN << >> ELSE Drop(b, d - 1)

(***************************************************************************)
(* Syntax trees: JSON-like values.  Every value is a record                *)
(*   [t, n, s, keys, vals]                                                 *)
(* t is the value's real type; n / s hold a number / string; an array      *)
(* keeps its elements in vals; an object keeps its own keys in insertion   *)
(* order in keys and their values in vals.                                 *)
(***************************************************************************)
Undefined == [t |-> "undefined", n |-> 0, s |-> "", keys |-> << >>, vals |-> << >>]
Null == [t |-> "null", n |-> 0, s |-> "", keys |-> << >>, vals |-> << >>]
Num(i) == [t |-> "number", n |-> i, s |-> "", keys |-> << >>, vals |-> << >>]
Str(x) == [t |-> "string", n |-> 0, s |-> x, keys |-> << >>, vals |-> << >>]
Arr(items) == [t |-> "array", n |-> 0, s |-> "", keys |-> << >>, vals |-> items]
Obj(ks, vs) == [t |-> "object", n |-> 0, s |-> "", keys |-> ks, vals |-> vs]

\* Object.keys(v).indexOf(k), 1-based; 0 when v has no own key k
KeyIndex(v, k) ==
    LET hits == {i \in 1..Len(v.keys) : v.keys[i] = k}
    IN  IF hits = {} THEN 0 ELSE CHOOSE i \in hits : TRUE

\* v[k] for a string key; undefined unless v is an object with own key k
Get(v, k) ==
    IF v.t = "object" /\ KeyIndex(v, k) # 0 THEN v.vals[KeyIndex(v, k)] ELSE Undefined

\* JavaScript truthiness
Truthy(v) ==
    CASE v.t = "undefined" -> FALSE
      [] v.t = "null" -> FALSE
      [] v.t = "number" -> v.n # 0
      [] v.t = "string" -> v.s # ""
      [] OTHER -> TRUE

\* String(i) of an array index, as RegExp.prototype.test converts its argument
IndexKey(i) == ToString(i)

(***************************************************************************)
(* The comparison: diff(originalAst, modifiedAst, prefilter)               *)
(***************************************************************************)
\* var locsRegEx = /^(column|end|line|loc|start)$/; locsRegEx.test(k)
LocsRegExTest(k) == k \in {"column", "end", "line", "loc", "start"}

\* a prefilter that filters the position keys of the root node only
PrefilterTopLevelOnly(path, key) == path = << >> /\ LocsRegExTest(key)

\* the prefilter callback: deep-diff calls it with (path so far, key); the
\* callback tests its second argument, the key
Prefilter(path, key) == LocsRegExTest(key)

NoItem == [kind |-> "", lhs |-> Undefined, rhs |-> Undefined]
DiffEdit(path, l, r) ==
    [kind |-> "E", path |-> path, lhs |-> l, rhs |-> r, index |-> -1, item |-> NoItem]
DiffNew(path, r) ==
    [kind |-> "N", path |-> path, lhs |-> Undefined, rhs |-> r, index |-> -1, item |-> NoItem]
DiffDeleted(path, l) ==
    [kind |-> "D", path |-> path, lhs |-> l, rhs |-> Undefined, index |-> -1, item |-> NoItem]
\* an array change carries its element change in item; it has no lhs / rhs of its own
DiffArray(path, i, it) ==
    [kind |-> "A", path |-> path, lhs |-> Undefined, rhs |-> Undefined, index |-> i, item |-> it]

RECURSIVE DeepDiff(_, _, _, _, _), DeepDiffArray(_, _, _, _), DeepDiffKeys(_, _, _, _),
          DeepDiffNewKeys(_, _, _, _)

\* deepDiff(lhs, rhs, changes, prefilter, path, key): the changes, in order
DeepDiff(lhs, rhs, path, hasKey, key) ==
    IF hasKey /\ Prefilter(path, key) THEN << >>
    ELSE LET currentPath == IF hasKey THEN Append(path, key) ELSE path
         IN  IF lhs.t = "undefined"
             THEN IF rhs.t # "undefined" THEN <<DiffNew(currentPath, rhs)>> ELSE << >>
             ELSE IF rhs.t = "undefined" THEN <<DiffDeleted(currentPath, lhs)>>
             ELSE IF lhs.t # rhs.t THEN <<DiffEdit(currentPath, lhs, rhs)>>
             ELSE IF lhs.t = "array" THEN DeepDiffArray(lhs, rhs, currentPath, 0)
             ELSE IF lhs.t = "object"
             THEN DeepDiffKeys(lhs, rhs, currentPath, 1)
                    \o DeepDiffNewKeys(lhs, rhs, currentPath, 1)
             ELSE IF lhs # rhs THEN <<DiffEdit(currentPath, lhs, rhs)>>
             ELSE << >>

\* the loop over array indices i, i+1, ... (0-based), positional
DeepDiffArray(lhs, rhs, currentPath, i) ==
    IF i < Len(lhs.vals)
    THEN (IF i >= Len(rhs.vals)
          THEN <<DiffArray(currentPath, i,
                           [kind |-> "D", lhs |-> lhs.vals[i + 1], rhs |-> Undefined])>>
          ELSE DeepDiff(lhs.vals[i + 1], rhs.vals[i + 1], currentPath, TRUE, IndexKey(i)))
           \o DeepDiffArray(lhs, rhs, currentPath, i + 1)
    ELSE IF i < Len(rhs.vals)
    THEN <<DiffArray(currentPath, i,
                     [kind |-> "N", lhs |-> Undefined, rhs |-> rhs.vals[i + 1]])>>
           \o DeepDiffArray(lhs, rhs, currentPath, i + 1)
    ELSE << >>

\* akeys.forEach: every key of lhs, against rhs's value or undefined
DeepDiffKeys(lhs, rhs, currentPath, j) ==
    IF j > Len(lhs.keys) THEN << >>
    ELSE DeepDiff(lhs.vals[j], Get(rhs, lhs.keys[j]), currentPath, TRUE, lhs.keys[j])
           \o DeepDiffKeys(lhs, rhs, currentPath, j + 1)

\* pkeys.forEach: the keys of rhs that lhs does not have
DeepDiffNewKeys(lhs, rhs, currentPath, j) ==
    IF j > Len(rhs.keys) THEN << >>
    ELSE (IF KeyIndex(lhs, rhs.keys[j]) = 0
          THEN DeepDiff(Undefined, rhs.vals[j], currentPath, TRUE, rhs.keys[j])
          ELSE << >>)
           \o DeepDiffNewKeys(lhs, rhs, currentPath, j + 1)

NoDifferences == [defined |-> FALSE, list |-> << >>]

\* accumulateDiff: the list of changes, or undefined when there is none
AccumulateDiff(lhs, rhs) ==
    LET accum == DeepDiff(lhs, rhs, << >>, FALSE, "")
    IN  IF Len(accum) # 0 THEN [defined |-> TRUE, list |-> accum] ELSE NoDifferences

(***************************************************************************)
(* The file system.  fs maps a path to its entry:                          *)
(*   [kind, listable, text, readable, target]                              *)
(* kind is "dir", "file", "link" or "other" (socket, device); a directory  *)
(* may be unlistable; a file has its text; readable tells whether          *)
(* readFileSync returns the text: it does for a file and for a character   *)
(* device such as /dev/null (an empty text), it throws for a directory and *)
(* for a socket; a symbolic link has its target.  The keys are the paths   *)
(* without links, "." or ".." names in them, relative to the working       *)
(* directory or absolute.  A path with an entry beneath it is a directory  *)
(* without an entry of its own; the working directory, the root and the    *)
(* directories above the working directory are always there.               *)
(***************************************************************************)
DirEntry(canList) ==
    [kind |-> "dir", listable |-> canList, text |-> "", readable |-> FALSE,
     target |-> << >>]
FileEntry(text) ==
    [kind |-> "file", listable |-> FALSE, text |-> text, readable |-> TRUE,
     target |-> << >>]
DeviceEntry ==
    [kind |-> "other", listable |-> FALSE, text |-> "", readable |-> TRUE,
     target |-> << >>]
SocketEntry ==
    [kind |-> "other", listable |-> FALSE, text |-> "", readable |-> FALSE,
     target |-> << >>]
LinkEntry(target) ==
    [kind |-> "link", listable |-> FALSE, text |-> "", readable |-> FALSE,
     target |-> target]

Exists(f, p) == p \in DOMAIN f

ROOT_DIR == <<SLASH>>
WORKING_DIR == <<DOT>>
PARENT_DIR == <<DOT, DOT>>

\* the links the operating system follows in one path before it gives up (ELOOP)
SYMLOOP_MAX == 40

\* no path: what a path the operating system cannot follow resolves to
NoPath == << >>

\* the one element of a set of one element
Only(S) == CHOOSE x \in S : TRUE

\* what follows the directory d in the key q; nothing when q is not beneath d
Beneath(d, q) ==
    IF d = WORKING_DIR THEN IF Head(q) = SLASH THEN << >> ELSE q
    ELSE IF d = ROOT_DIR THEN IF Head(q) = SLASH THEN Drop(q, 1) ELSE << >>
    ELSE IF Len(q) > Len(d) + 1 /\ Take(q, Len(d) + 1) = d \o <<SLASH>>
    THEN Drop(q, Len(d) + 1)
    ELSE << >>

\* the names in the directory d: the first name of every key beneath it
NamesIn(f, d) ==
    {Head(SplitPath(rest)) : rest \in {Beneath(d, q) : q \in DOMAIN f}}
        \ {<< >>, WORKING_DIR, PARENT_DIR}

\* d is a directory above the working directory: "..", "../..", ...
IsAboveWorkingDir(d) ==
    d # << >> /\ \A i \in 1..Len(SplitPath(d)) : SplitPath(d)[i] = PARENT_DIR

\* d is a directory: an entry of its own or the directory some entry lies in,
\* the working directory, the root, or a directory above the working directory
IsExistingDirectory(f, d) ==
    IF Exists(f, d) THEN f[d].kind = "dir"
    ELSE \/ d \in {ROOT_DIR, WORKING_DIR}
         \/ IsAboveWorkingDir(d)
         \/ NamesIn(f, d) # {}

\* the directory the directory d lies in
ParentOf(d) ==
    IF d = ROOT_DIR THEN ROOT_DIR
    ELSE IF d = WORKING_DIR THEN PARENT_DIR
    ELSE IF IsAboveWorkingDir(d) THEN d \o <<SLASH>> \o PARENT_DIR
    ELSE IF LastIndexOf(d, SLASH) = 0 THEN WORKING_DIR
    ELSE IF LastIndexOf(d, SLASH) = 1 THEN ROOT_DIR
    ELSE Take(d, LastIndexOf(d, SLASH) - 1)

\* the path of the name in the directory d
ChildOf(d, name) ==
    IF d = WORKING_DIR THEN name
    ELSE IF d = ROOT_DIR THEN ROOT_DIR \o name
    ELSE d \o <<SLASH>> \o name

\* where the operating system stands in a path: at the directory cur, with
\* the names comps still to follow and fuel links it may still follow
Standing(cur, comps, fuel) == [cur |-> cur, comps |-> comps, fuel |-> fuel]
Lost == Standing(NoPath, << >>, 0)

\* one name followed: an empty name and "." stay where they are, ".." goes
\* to the directory cur lies in, a symbolic link puts the names of its target
\* before the names that remain (from the root when the target starts with a
\* slash) and uses up one of the links the whole path may follow, any other
\* name but the last must be a directory.  The last name need not exist.
ResolveStep(f, s) ==
    LET name == Head(s.comps)
        rest == Tail(s.comps)
    IN  IF name \in {<< >>, WORKING_DIR} THEN Standing(s.cur, rest, s.fuel)
        ELSE IF name = PARENT_DIR THEN Standing(ParentOf(s.cur), rest, s.fuel)
        ELSE Only({IF Exists(f, next) /\ f[next].kind = "link"
                   THEN IF s.fuel = 0 \/ f[next].target = << >> THEN Lost
                        ELSE Standing(IF Head(f[next].target) = SLASH THEN ROOT_DIR
                                      ELSE s.cur,
                                      SplitPath(f[next].target) \o rest, s.fuel - 1)
                   ELSE IF rest = << >> \/ IsExistingDirectory(f, next)
                   THEN Standing(next, rest, s.fuel)
                   ELSE Lost :
                      next \in {ChildOf(s.cur, name)}})

RECURSIVE Resolve(_, _, _)
\* where the operating system stands after it followed the names of s, which
\* takes at most 2^k steps: the first half of them, then the rest
Resolve(f, s, k) ==
    IF s.comps = << >> THEN s
    ELSE IF k = 0 THEN ResolveStep(f, s)
    ELSE Only({Resolve(f, t, k - 1) : t \in {Resolve(f, s, k - 1)}})

\* the steps that follow every name of p: one for each name, and for each of
\* the links followed one for each name of its target
MaxSteps(f, p) ==
    LET sizes == {0} \cup {Len(f[l].target) : l \in {q \in DOMAIN f : f[q].kind = "link"}}
    IN  Len(p) + 1 + SYMLOOP_MAX * (1 + CHOOSE n \in sizes : \A m \in sizes : m <= n)

RECURSIVE Doublings(_)
\* the least k with 2^k >= n
Doublings(n) == IF n <= 1 THEN 0 ELSE 1 + Doublings((n + 1) \div 2)

\* where the operating system stands before it follows p: at the root when
\* p starts with a slash, at the working directory otherwise
FromStart(p) ==
    IF p = << >> THEN Lost
    ELSE Standing(IF Head(p) = SLASH THEN ROOT_DIR ELSE WORKING_DIR, SplitPath(p),
                  SYMLOOP_MAX)

\* the path without links that p leads to
RealPath(f, p) ==
    Only({Resolve(f, s, k).cur :
             s \in {FromStart(q) : q \in {p}}, k \in {Doublings(MaxSteps(f, p))}})

\* fs.statSync(p) returns (does not throw)
CanStat(f, p) ==
    \E r \in {RealPath(f, p)} : r # NoPath /\ (Exists(f, r) \/ IsExistingDirectory(f, r))

\* fs.statSync(p).isDirectory() / .isFile(), for a path that can be stat'ed
IsDirectory(f, p) == \E r \in {RealPath(f, p)} : IsExistingDirectory(f, r)
IsFile(f, p) == \E r \in {RealPath(f, p)} : Exists(f, r) /\ f[r].kind = "file"

\* the code of a character, and the order of two names by their characters
CHARS_FROM_SPACE == " !\"#$%&'()*+,-./0123456789:;<=>?@ABCDEFGHIJKLMNOPQRSTUVWXYZ[\\]^_"
CHARS_FROM_A == "abcdefghijklmnopqrstuvwxyz{|}~"
CharCode(c) ==
    IF c = GRAVE THEN 96
    ELSE IF \E i \in 1..Len(CHARS_FROM_SPACE) : SubSeq(CHARS_FROM_SPACE, i, i) = c
    THEN 31 + (CHOOSE i \in 1..Len(CHARS_FROM_SPACE) : SubSeq(CHARS_FROM_SPACE, i, i) = c)
    ELSE 96 + (CHOOSE i \in 1..Len(CHARS_FROM_A) : SubSeq(CHARS_FROM_A, i, i) = c)

RECURSIVE NameBefore(_, _)
NameBefore(a, b) ==
    IF b = << >> THEN FALSE
    ELSE IF a = << >> THEN TRUE
    ELSE IF Head(a) # Head(b) THEN CharCode(Head(a)) < CharCode(Head(b))
    ELSE NameBefore(Tail(a), Tail(b))

RECURSIVE SortNames(_)
\* the names of a set, in order
SortNames(names) ==
    IF names = {} THEN << >>
    ELSE Only({<<first>> \o SortNames(names \ {first}) :
                  first \in {n \in names : \A m \in names \ {n} : NameBefore(n, m)}})

\* fs.readdirSync(p) returns (does not throw), and the names it returns
CanReaddir(f, p) ==
    \E r \in {RealPath(f, p)} :
        r # NoPath /\ IsExistingDirectory(f, r) /\ (Exists(f, r) => f[r].listable)
Children(f, p) == Only({SortNames(NamesIn(f, r)) : r \in {RealPath(f, p)}})

\* fs.readFileSync(p) returns (does not throw), and the text it returns
CanReadFile(f, p) == \E r \in {RealPath(f, p)} : r # NoPath /\ Exists(f, r) /\ f[r].readable
ReadFile(f, p) == f[RealPath(f, p)].text

\* fs.writeFileSync(p, data) can succeed: p leads to a regular file, to a
\* device, or to a free name in an existing directory
CanWrite(f, p) ==
    \E r \in {RealPath(f, p)} :
        /\ r # NoPath
        /\ IF Exists(f, r) THEN f[r].kind = "file" \/ f[r] = DeviceEntry
           ELSE ~IsExistingDirectory(f, r)

\* the file system after fs.writeFileSync(p, data) succeeded: a device takes
\* the data and stays what it is; otherwise the file p leads to holds the
\* data, and is created in its directory when it did not exist
AfterWrite(f, p, data) ==
    Only({IF Exists(f, r) /\ f[r] = DeviceEntry THEN f ELSE (r :> FileEntry(data)) @@ f :
             r \in {RealPath(f, p)}})

(***************************************************************************)
(* acorn.parse(text, {ecmaVersion: 6, locations: true}) on the source      *)
(* texts of the model: single-line scripts, so a column is an offset.      *)
(***************************************************************************)
Position(offset) == Obj(<<"line", "column">>, <<Num(1), Num(offset)>>)
SourceLocation(start, end) == Obj(<<"start", "end">>, <<Position(start), Position(end)>>)

\* a node: type, start, end, loc, then the node's own fields
AstNode(type, start, end, ks, vs) ==
    Obj(<<"type", "start", "end", "loc">> \o ks,
        <<Str(type), Num(start), Num(end), SourceLocation(start, end)>> \o vs)

\* the Program of "const <name> = <value>;" with the identifier at idStart, the
\* literal at litStart (both one character long) and the statement ending at stmtEnd
ConstProgram(name, value, raw, idStart, litStart, stmtEnd) ==
    LET id == AstNode("Identifier", idStart, idStart + 1, <<"name">>, <<Str(name)>>)
        lit == AstNode("Literal", litStart, litStart + 1,
                       <<"value", "raw">>, <<Num(value), Str(raw)>>)
        declarator == AstNode("VariableDeclarator", idStart, litStart + 1,
                              <<"id", "init">>, <<id, lit>>)
        declaration == AstNode("VariableDeclaration", 0, stmtEnd,
                               <<"declarations", "kind">>,
                               <<Arr(<<declarator>>), Str("const")>>)
    IN  AstNode("Program", 0, stmtEnd, <<"body", "sourceType">>,
                <<Arr(<<declaration>>), Str("script")>>)

\* the Program of "var <name>;" with the identifier at idStart (one character
\* long) and the statement ending at stmtEnd
VarProgram(name, idStart, stmtEnd) ==
    LET id == AstNode("Identifier", idStart, idStart + 1, <<"name">>, <<Str(name)>>)
        declarator == AstNode("VariableDeclarator", idStart, idStart + 1,
                              <<"id", "init">>, <<id, Null>>)
        declaration == AstNode("VariableDeclaration", 0, stmtEnd,
                               <<"declarations", "kind">>,
                               <<Arr(<<declarator>>), Str("var")>>)
    IN  AstNode("Program", 0, stmtEnd, <<"body", "sourceType">>,
                <<Arr(<<declaration>>), Str("script")>>)

\* the Program of the empty text
EmptyProgram == AstNode("Program", 0, 0, <<"body", "sourceType">>, <<Arr(<< >>), Str("script")>>)

SrcEmpty == ""
SrcOne == "const a = 1;"
SrcOneSpaced == "const   a   =   1  ;"
SrcTwo == "const a = 2;"
SrcVar == "var a;"
SrcInvalid == "const a = ;"

SyntaxError == [ok |-> FALSE, ast |-> Undefined]
Parsed(tree) == [ok |-> TRUE, ast |-> tree]

\* acorn.parse on the texts of the model; no other text is ever parsed, and
\* the operator says nothing about one
AcornParse(text) ==
    CASE text = SrcEmpty -> Parsed(EmptyProgram)
      [] text = SrcOne -> Parsed(ConstProgram("a", 1, "1", 6, 10, 12))
      [] text = SrcOneSpaced -> Parsed(ConstProgram("a", 1, "1", 8, 16, 20))
      [] text = SrcTwo -> Parsed(ConstProgram("a", 2, "2", 6, 10, 12))
      [] text = SrcVar -> Parsed(VarProgram("a", 4, 6))
      [] text = SrcInvalid -> SyntaxError

\* acorn.parse(fs.readFileSync(p), parseOpts): fails when the file cannot be
\* read or its text is not a valid script
ParseFile(f, p) == IF CanReadFile(f, p) THEN AcornParse(ReadFile(f, p)) ELSE SyntaxError

(***************************************************************************)
(* Output lines                                                            *)
(***************************************************************************)
ErrLine(k, p, loc) == [k |-> k, path |-> p, loc |-> loc]
OutLine(k, p, n, d) == [k |-> k, path |-> p, n |-> n, diff |-> d]

ERR_ACCESS == "Error accessing"
ERR_PARSE == "failed to parse"
ERR_WRITE == "Error writing to"
ERR_EXCEPTION == "<e>"
ERR_UNCAUGHT == "<uncaught>"
MSG_VARIATION == "AST variation detected in"
MSG_ORIGINAL == "Original:"
MSG_MODIFIED == "Modified:"
MSG_DUMPS == "AST dumps available in the following files:"
MSG_DUMP_PATH == "<path>"
MSG_DIFF_SAVED == "Diff of AST dumps saved to:"
MSG_HINT == "Use the -d option to save AST dumps and diff info."

\* console.error(<message>, p); console.error(e)
FatalLines(k, p) == <<ErrLine(k, p, Undefined), ErrLine(ERR_EXCEPTION, << >>, Undefined)>>

(***************************************************************************)
(* The walk over the original tree                                         *)
(***************************************************************************)
\* directories.push(path.join(options.originalSource, subdir)) for every subdir
InitialDirectories(root, subdirs) == [i \in 1..Len(subdirs) |-> PathJoin(root, subdirs[i])]

JS_EXT == <<".", "j", "s">>

\* the callback of _.each for one child: a directory is pushed on the stack, a
\* regular file is kept when its extension is .js, anything else is only logged
VisitChild(f, childRelativePath, acc) ==
    IF IsDirectory(f, childRelativePath)
    THEN [acc EXCEPT !.directories = Append(@, childRelativePath)]
    ELSE IF IsFile(f, childRelativePath)
    THEN IF PathExtname(childRelativePath) = JS_EXT
         THEN [acc EXCEPT !.files = Append(@, childRelativePath)]
         ELSE acc
    ELSE [acc EXCEPT !.out = Append(@, OutLine("is not a normal file or directory",
                                               childRelativePath, 0, NoDifferences))]

RECURSIVE EachChild(_, _, _, _)
\* _.each(directoryChildren, ...): acc = [directories, files, out, thrown]
\* after visiting the names from position i on; the visit ends at the first
\* child fs.statSync throws for, which thrown then holds
EachChild(f, relativePath, i, acc) ==
    LET names == Children(f, relativePath)
    IN  IF i > Len(names) THEN acc
        ELSE LET childRelativePath == PathJoin(relativePath, names[i])
             IN  IF ~CanStat(f, childRelativePath)
                 THEN [acc EXCEPT !.thrown = <<childRelativePath>>]
                 ELSE EachChild(f, relativePath, i + 1,
                                VisitChild(f, childRelativePath, acc))

Top(stack) == stack[Len(stack)]
Pop(stack) == Take(stack, Len(stack) - 1)

\* the stack, the files and the verbose output after one iteration of the
\* loop over the directory on top of the stack
WalkResult ==
    EachChild(fs, Top(directories), 1,
              [directories |-> Pop(directories), files |-> files, thrown |-> << >>,
               out |-> Append(stdout, OutLine("Searching for files and directories in",
                                              Top(directories), 0, NoDifferences))])

\* one iteration of while (directories.length) whose readdirSync succeeds
\* and whose children can all be stat'ed
WalkDir ==
    /\ pc = "walk"
    /\ directories # << >>
    /\ CanReaddir(fs, Top(directories))
    /\ WalkResult.thrown = << >>
    /\ directories' = WalkResult.directories
    /\ files' = WalkResult.files
    /\ stdout' = WalkResult.out
    /\ UNCHANGED <<originalSource, modifiedSource, jsFilesDir, debug, fs, idx,
                   originalVersion, modifiedVersion, originalAst, modifiedAst,
                   differences, written, stderr, exitCode, pc>>

\* a walk that reports the directory it cannot list and goes on with the rest
WalkFailSkips ==
    /\ pc = "walk"
    /\ directories # << >>
    /\ ~CanReaddir(fs, Top(directories))
    /\ directories' = Pop(directories)
    /\ stdout' = Append(stdout, OutLine("Searching for files and directories in",
                                         Top(directories), 0, NoDifferences))
    /\ stderr' = stderr \o FatalLines(ERR_ACCESS, Top(directories))
    /\ UNCHANGED <<originalSource, modifiedSource, jsFilesDir, debug, fs, files, idx,
                   originalVersion, modifiedVersion, originalAst, modifiedAst,
                   differences, written, exitCode, pc>>

\* one iteration whose readdirSync throws: report and process.exit(1)
WalkFail ==
    /\ pc = "walk"
    /\ directories # << >>
    /\ LET relativePath == Top(directories)
       IN  /\ ~CanReaddir(fs, relativePath)
           /\ directories' = Pop(directories)
           /\ stdout' = Append(stdout, OutLine("Searching for files and directories in",
                                                relativePath, 0, NoDifferences))
           /\ stderr' = stderr \o FatalLines(ERR_ACCESS, relativePath)
    /\ exitCode' = 1
    /\ pc' = "exited"
    /\ UNCHANGED <<originalSource, modifiedSource, jsFilesDir, debug, fs, files, idx,
                   originalVersion, modifiedVersion, originalAst, modifiedAst,
                   differences, written>>

\* one iteration in which fs.statSync throws for a child: nothing catches
\* the exception, Node prints it and the process ends with status 1
WalkStatThrows ==
    /\ pc = "walk"
    /\ directories # << >>
    /\ CanReaddir(fs, Top(directories))
    /\ WalkResult.thrown # << >>
    /\ directories' = WalkResult.directories
    /\ files' = WalkResult.files
    /\ stdout' = WalkResult.out
    /\ stderr' = Append(stderr, ErrLine(ERR_UNCAUGHT, WalkResult.thrown[1], Undefined))
    /\ exitCode' = 1
    /\ pc' = "exited"
    /\ UNCHANGED <<originalSource, modifiedSource, jsFilesDir, debug, fs, idx,
                   originalVersion, modifiedVersion, originalAst, modifiedAst,
                   differences, written>>

\* the while loop ends; the for..of loop over files begins
WalkDone ==
    /\ pc = "walk"
    /\ directories = << >>
    /\ stdout' = stdout \o <<OutLine("files found in the corpus", << >>, Len(files), NoDifferences),
                             OutLine("Beginning AST parse process", << >>, 0, NoDifferences)>>
    /\ idx' = 1
    /\ pc' = "pair"
    /\ UNCHANGED <<originalSource, modifiedSource, jsFilesDir, debug, fs, directories,
                   files, originalVersion, modifiedVersion, originalAst, modifiedAst,
                   differences, written, stderr, exitCode>>

(***************************************************************************)
(* The loop over the files found                                           *)
(***************************************************************************)
\* path.normalize(originalVersion.replace(options.originalSource, options.modifiedSource))
ModifiedVersionOf(original, origRoot, modRoot) ==
    PathNormalize(StringReplace(original, origRoot, modRoot))

\* for (var originalVersion of files): the next file and its counterpart
NextFile ==
    /\ pc = "pair"
    /\ idx <= Len(files)
    /\ originalVersion' = files[idx]
    /\ modifiedVersion' = ModifiedVersionOf(files[idx], originalSource, modifiedSource)
    /\ stdout' = stdout \o
          <<OutLine("originalVersion", files[idx], 0, NoDifferences),
            OutLine("modifiedVersion",
                    ModifiedVersionOf(files[idx], originalSource, modifiedSource),
                    0, NoDifferences)>>
    /\ pc' = "parseOriginal"
    /\ UNCHANGED <<originalSource, modifiedSource, jsFilesDir, debug, fs, directories,
                   files, idx, originalAst, modifiedAst, differences, written, stderr,
                   exitCode>>

\* the loop is exhausted: the script ends and the process exits with status 0
Finish ==
    /\ pc = "pair"
    /\ idx > Len(files)
    /\ exitCode' = 0
    /\ pc' = "done"
    /\ UNCHANGED <<originalSource, modifiedSource, jsFilesDir, debug, fs, directories,
                   files, idx, originalVersion, modifiedVersion, originalAst, modifiedAst,
                   differences, written, stderr, stdout>>

ParseOriginal ==
    /\ pc = "parseOriginal"
    /\ ParseFile(fs, originalVersion).ok
    /\ originalAst' = ParseFile(fs, originalVersion).ast
    /\ pc' = "parseModified"
    /\ UNCHANGED <<originalSource, modifiedSource, jsFilesDir, debug, fs, directories,
                   files, idx, originalVersion, modifiedVersion, modifiedAst, differences,
                   written, stderr, stdout, exitCode>>

ParseOriginalFail ==
    /\ pc = "parseOriginal"
    /\ ~ParseFile(fs, originalVersion).ok
    /\ stderr' = stderr \o FatalLines(ERR_PARSE, originalVersion)
    /\ exitCode' = 1
    /\ pc' = "exited"
    /\ UNCHANGED <<originalSource, modifiedSource, jsFilesDir, debug, fs, directories,
                   files, idx, originalVersion, modifiedVersion, originalAst, modifiedAst,
                   differences, written, stdout>>

ParseModified ==
    /\ pc = "parseModified"
    /\ ParseFile(fs, modifiedVersion).ok
    /\ modifiedAst' = ParseFile(fs, modifiedVersion).ast
    /\ pc' = "diff"
    /\ UNCHANGED <<originalSource, modifiedSource, jsFilesDir, debug, fs, directories,
                   files, idx, originalVersion, modifiedVersion, originalAst, differences,
                   written, stderr, stdout, exitCode>>

ParseModifiedFail ==
    /\ pc = "parseModified"
    /\ ~ParseFile(fs, modifiedVersion).ok
    /\ stderr' = stderr \o FatalLines(ERR_PARSE, modifiedVersion)
    /\ exitCode' = 1
    /\ pc' = "exited"
    /\ UNCHANGED <<originalSource, modifiedSource, jsFilesDir, debug, fs, directories,
                   files, idx, originalVersion, modifiedVersion, originalAst, modifiedAst,
                   differences, written, stdout>>

\* var differences = diff(originalAst, modifiedAst, prefilter)
Compare ==
    /\ pc = "diff"
    /\ differences' = AccumulateDiff(originalAst, modifiedAst)
    /\ stdout' = Append(stdout, OutLine("JSON.stringify(differences)", << >>, 0,
                                        AccumulateDiff(originalAst, modifiedAst)))
    /\ pc' = "report"
    /\ UNCHANGED <<originalSource, modifiedSource, jsFilesDir, debug, fs, directories,
                   files, idx, originalVersion, modifiedVersion, originalAst, modifiedAst,
                   written, stderr, exitCode>>

\* a test that misses a single difference: differences.length > 1
HasSeveralDifferences(d) == d.defined /\ Len(d.list) > 1

\* if (differences): an array is truthy, undefined is not
HasDifferences(d) == d.defined

\* if (differences) is false: nothing is printed, the loop goes on
ReportEqual ==
    /\ pc = "report"
    /\ ~HasDifferences(differences)
    /\ idx' = idx + 1
    /\ pc' = "pair"
    /\ UNCHANGED <<originalSource, modifiedSource, jsFilesDir, debug, fs, directories,
                   files, originalVersion, modifiedVersion, originalAst, modifiedAst,
                   differences, written, stderr, stdout, exitCode>>

\* the lines printed for one diffEntry
PositionLines(diffEntry) ==
    (IF Truthy(diffEntry.lhs) /\ Truthy(Get(diffEntry.lhs, "loc"))
     THEN <<ErrLine(MSG_ORIGINAL, << >>, Get(diffEntry.lhs, "loc"))>> ELSE << >>)
    \o
    (IF Truthy(diffEntry.rhs) /\ Truthy(Get(diffEntry.rhs, "loc"))
     THEN <<ErrLine(MSG_MODIFIED, << >>, Get(diffEntry.rhs, "loc"))>> ELSE << >>)

RECURSIVE AllPositionLines(_)
\* for (var diffEntry of differences)
AllPositionLines(list) ==
    IF list = << >> THEN << >>
    ELSE PositionLines(Head(list)) \o AllPositionLines(Tail(list))

AST_OUT_EXT == <<".", "a", "s", "t">>
AST_DIFF_EXT == <<".", "d", "i", "f", "f">>
AstFilePathOriginal == originalVersion \o AST_OUT_EXT
\* the modified tree's dump named after the original file
AstFilePathModifiedFromOriginal == originalVersion \o AST_OUT_EXT
AstFilePathModified == modifiedVersion \o AST_OUT_EXT
AstDiffFilePath == AstFilePathOriginal \o AST_DIFF_EXT

\* a report that goes on to the writes whatever options.debug says
ReportVariationAlwaysWrites ==
    /\ pc = "report"
    /\ HasDifferences(differences)
    /\ stderr' = stderr \o <<ErrLine(MSG_VARIATION, originalVersion, Undefined)>>
                        \o AllPositionLines(differences.list)
    /\ pc' = "writeDiff"
    /\ UNCHANGED <<originalSource, modifiedSource, jsFilesDir, debug, fs, directories,
                   files, idx, originalVersion, modifiedVersion, originalAst, modifiedAst,
                   differences, written, stdout, exitCode>>

\* if (differences) is true: the variation and its positions are printed; with
\* options.debug the writes follow, else the hint is printed and the loop goes on
ReportVariation ==
    /\ pc = "report"
    /\ HasDifferences(differences)
    /\ LET lines == <<ErrLine(MSG_VARIATION, originalVersion, Undefined)>>
                      \o AllPositionLines(differences.list)
       IN  IF debug
           THEN /\ stderr' = stderr \o lines
                /\ pc' = "writeDiff"
                /\ idx' = idx
           ELSE /\ stderr' = stderr \o lines \o <<ErrLine(MSG_HINT, << >>, Undefined)>>
                /\ pc' = "pair"
                /\ idx' = idx + 1
    /\ UNCHANGED <<originalSource, modifiedSource, jsFilesDir, debug, fs, directories,
                   files, originalVersion, modifiedVersion, originalAst, modifiedAst,
                   differences, written, stdout, exitCode>>

WriteRecord(p, what) == [path |-> p, what |-> what]

\* the text JSON.stringify(<what>, null, 4) gives
JsonStringify(what) == "JSON.stringify(" \o what \o ", null, 4)"

\* fs.writeFileSync(p, JSON.stringify(what, null, 4)) succeeds
WriteOk(at, p, what, then) ==
    /\ pc = at
    /\ CanWrite(fs, p)
    /\ fs' = AfterWrite(fs, p, JsonStringify(what))
    /\ written' = Append(written, WriteRecord(p, what))
    /\ pc' = then
    /\ UNCHANGED <<originalSource, modifiedSource, jsFilesDir, debug, directories, files,
                   originalVersion, modifiedVersion, originalAst, modifiedAst,
                   differences, exitCode>>

\* a failed write that is reported, after which the loop goes on with the next file
WriteThrowsContinues(at, p) ==
    /\ pc = at
    /\ stderr' = stderr \o FatalLines(ERR_WRITE, p)
    /\ idx' = idx + 1
    /\ pc' = "pair"
    /\ UNCHANGED <<originalSource, modifiedSource, jsFilesDir, debug, fs, directories,
                   files, originalVersion, modifiedVersion, originalAst, modifiedAst,
                   differences, written, stdout, exitCode>>

\* fs.writeFileSync(p, ...) throws: report and process.exit(1)
WriteThrows(at, p) ==
    /\ pc = at
    /\ stderr' = stderr \o FatalLines(ERR_WRITE, p)
    /\ exitCode' = 1
    /\ pc' = "exited"
    /\ UNCHANGED <<originalSource, modifiedSource, jsFilesDir, debug, fs, directories,
                   files, idx, originalVersion, modifiedVersion, originalAst, modifiedAst,
                   differences, written, stdout>>

WriteDiff ==
    /\ WriteOk("writeDiff", AstDiffFilePath, "differences", "writeOriginal")
    /\ UNCHANGED <<idx, stderr, stdout>>

WriteDiffFail == WriteThrows("writeDiff", AstDiffFilePath)

WriteOriginal ==
    /\ WriteOk("writeOriginal", AstFilePathOriginal, "originalAst", "writeModified")
    /\ UNCHANGED <<idx, stderr, stdout>>

WriteOriginalFail == WriteThrows("writeOriginal", AstFilePathOriginal)

\* the last write; the saved paths are announced and the loop goes on
WriteModified ==
    /\ WriteOk("writeModified", AstFilePathModified, "modifiedAst", "pair")
    /\ stderr' = stderr \o <<ErrLine(MSG_DUMPS, << >>, Undefined),
                             ErrLine(MSG_DUMP_PATH, AstFilePathOriginal, Undefined),
                             ErrLine(MSG_DUMP_PATH, AstFilePathModified, Undefined),
                             ErrLine(MSG_DIFF_SAVED, << >>, Undefined),
                             ErrLine(MSG_DUMP_PATH, AstDiffFilePath, Undefined)>>
    /\ idx' = idx + 1
    /\ UNCHANGED stdout

WriteModifiedFail == WriteThrows("writeModified", AstFilePathModified)

(***************************************************************************)
(* Initial states                                                          *)
(***************************************************************************)
ORIG_ROOT == <<"o">>
MOD_ROOT == <<"m">>
TESTS_DIR == <<"t">>
A_JS == <<"a", ".", "j", "s">>
B_TXT == <<"b", ".", "t", "x", "t">>
X_JS == <<"x", ".", "j", "s">>
NESTED_DIR == <<"n">>
NOWHERE == <<"z">>
SubdirNames == <<<<"p">>, <<"q", SLASH>>, <<"r">>, <<"s">>, <<"u">>>>

UP_TWO == <<DOT, DOT, SLASH, DOT, DOT>>

NoFiles == [p \in {} |-> SocketEntry]

\* a path without the slash it may end with
WithoutSlash(p) == IF p[Len(p)] = SLASH THEN Take(p, Len(p) - 1) ELSE p

\* the state after the script's set-up for the given options and file system
Start(origRoot, modRoot, subdirs, dbg, f) ==
    /\ originalSource = origRoot
    /\ modifiedSource = modRoot
    /\ jsFilesDir = subdirs
    /\ debug = dbg
    /\ fs = f
    /\ directories = InitialDirectories(origRoot, subdirs)
    /\ files = << >>
    /\ idx = 0
    /\ originalVersion = << >>
    /\ modifiedVersion = << >>
    /\ originalAst = Undefined
    /\ modifiedAst = Undefined
    /\ differences = NoDifferences
    /\ written = << >>
    /\ stderr = << >>
    /\ stdout = <<OutLine("List of directories to scan", << >>, Len(subdirs), NoDifferences)>>
    /\ exitCode = -1
    /\ pc = "walk"

RECURSIVE DirTrees(_, _)
\* every directory tree rooted at path, nested at most depth levels, whose
\* directories hold any of a.js and b.txt, each a file, a directory, a
\* non-regular entry or a dangling link
DirTrees(path, depth) ==
    LET Options(name) ==
            LET child == PathJoin(path, name)
            IN  {NoFiles, child :> FileEntry(SrcOne), child :> SocketEntry,
                 child :> LinkEntry(NOWHERE)}
                  \cup (IF depth > 0 THEN DirTrees(child, depth - 1) ELSE {})
    IN  {(path :> DirEntry(TRUE)) @@ a @@ b : a \in Options(A_JS), b \in Options(B_TXT)}

\* the walk alone, over every directory tree under o/t
InitWalk ==
    \E f \in DirTrees(PathJoin(ORIG_ROOT, TESTS_DIR), MaxDepth) :
        Start(ORIG_ROOT, MOD_ROOT, <<TESTS_DIR>>, FALSE, f)

RootStrings == SeqsUpTo({"a", "b", SLASH, DOT}, MaxRootLen) \ {<< >>}

\* the modified roots: the root strings and the names that hold a $ pattern
\* of String.prototype.replace
DollarRoots == {<<DOLLAR, c>> : c \in {DOLLAR, AMPERSAND, GRAVE, APOSTROPHE, "a"}}
ModifiedRootStrings == RootStrings \cup DollarRoots

\* the walk and the pairing, for every pair of root strings: <root>/t holds x.js
InitPair ==
    \E origRoot \in RootStrings, modRoot \in ModifiedRootStrings :
        LET dir == PathJoin(origRoot, TESTS_DIR)
        IN  Start(origRoot, modRoot, <<TESTS_DIR>>, FALSE,
                  (dir :> DirEntry(TRUE)) @@ (PathJoin(dir, X_JS) :> FileEntry(SrcOne)))

\* the values compared in the comparison alone: numbers, objects with the keys
\* loc and body, arrays of at most MaxArrLen elements, nested twice
Leaves == {Num(1), Num(2)}
ArraysOver(values) == {Arr(items) : items \in SeqsUpTo(values, MaxArrLen)}
ObjectsOver(values) ==
    LET Opt == {Undefined} \cup values
        Key(k, v) == IF v = Undefined THEN << >> ELSE <<k>>
        Val(v) == IF v = Undefined THEN << >> ELSE <<v>>
    IN  {Obj(Key("loc", l) \o Key("body", b), Val(l) \o Val(b)) : l \in Opt, b \in Opt}
ValuesOver(values) == Leaves \cup ArraysOver(values) \cup ObjectsOver(values)
Trees == ValuesOver(ValuesOver(Leaves))

\* the comparison and its report alone, for every pair of trees: the state
\* in which both files of o/t/x.js have just been parsed
InitDiff ==
    \E lhs \in Trees, rhs \in Trees :
        LET file == PathJoin(PathJoin(ORIG_ROOT, TESTS_DIR), X_JS)
        IN  /\ originalSource = ORIG_ROOT
            /\ modifiedSource = MOD_ROOT
            /\ jsFilesDir = <<TESTS_DIR>>
            /\ debug = FALSE
            /\ fs = NoFiles
            /\ directories = << >>
            /\ files = <<file>>
            /\ idx = 1
            /\ originalVersion = file
            /\ modifiedVersion = ModifiedVersionOf(file, ORIG_ROOT, MOD_ROOT)
            /\ originalAst = lhs
            /\ modifiedAst = rhs
            /\ differences = NoDifferences
            /\ written = << >>
            /\ stderr = << >>
            /\ stdout = << >>
            /\ exitCode = -1
            /\ pc = "diff"

\* what one subdirectory name can hold in a full run: nothing at all (the
\* directory is missing), or a directory with or without a.js and with or
\* without a second name n.  a.js is invalid, or valid with its counterpart
\* missing, reformatted, changed, a var declaration, invalid or a device; the
\* changed pair may find a device where the original tree is saved, or,
\* where the modified tree is saved, a dangling link or a link to the file
\* the original tree is saved in.  n is a directory that cannot be listed or
\* a dangling link, beside no a.js or a reformatted one.
SubdirTrees(name) ==
    LET odir == WithoutSlash(PathJoin(ORIG_ROOT, name))
        mdir == WithoutSlash(PathJoin(MOD_ROOT, name))
        original(text) == PathJoin(odir, A_JS) :> FileEntry(text)
        Counterpart(entry) == (mdir :> DirEntry(TRUE)) @@ (PathJoin(mdir, A_JS) :> entry)
        ModOptions ==
            {NoFiles} \cup
            {Counterpart(entry) :
                entry \in {FileEntry(SrcOneSpaced), FileEntry(SrcTwo), FileEntry(SrcVar),
                           FileEntry(SrcInvalid), DeviceEntry}}
        Reformatted == original(SrcOne) @@ Counterpart(FileEntry(SrcOneSpaced))
        FileOptions ==
            {NoFiles,
             original(SrcInvalid),
             original(SrcOne) @@ Counterpart(FileEntry(SrcTwo))
                 @@ ((PathJoin(odir, A_JS) \o AST_OUT_EXT) :> DeviceEntry),
             original(SrcOne) @@ Counterpart(FileEntry(SrcTwo))
                 @@ ((PathJoin(mdir, A_JS) \o AST_OUT_EXT) :> LinkEntry(NOWHERE)),
             original(SrcOne) @@ Counterpart(FileEntry(SrcTwo))
                 @@ ((PathJoin(mdir, A_JS) \o AST_OUT_EXT)
                        :> LinkEntry(PathJoin(UP_TWO, PathJoin(odir, A_JS) \o AST_OUT_EXT)))}
            \cup {original(SrcOne) @@ m : m \in ModOptions}
        NestedOptions ==
            {PathJoin(odir, NESTED_DIR) :> DirEntry(FALSE),
             PathJoin(odir, NESTED_DIR) :> LinkEntry(NOWHERE)}
    IN  {NoFiles} \cup
        {(odir :> DirEntry(TRUE)) @@ f : f \in FileOptions} \cup
        {(odir :> DirEntry(TRUE)) @@ f @@ n : f \in {NoFiles, Reformatted}, n \in NestedOptions}

RECURSIVE RunTrees(_)
RunTrees(k) ==
    IF k = 0 THEN {NoFiles}
    ELSE {t @@ u : t \in RunTrees(k - 1), u \in SubdirTrees(SubdirNames[k])}

\* a full run: --originalSource o --modifiedSource m --jsFilesDir p q/ ...
Init ==
    \E f \in RunTrees(NumSubdirs), dbg \in BOOLEAN :
        Start(ORIG_ROOT, MOD_ROOT, Take(SubdirNames, NumSubdirs), dbg, f)

(***************************************************************************)
(* Specifications                                                          *)
(***************************************************************************)
Next ==
    \/ WalkDir \/ WalkFail \/ WalkStatThrows \/ WalkDone
    \/ NextFile \/ Finish
    \/ ParseOriginal \/ ParseOriginalFail
    \/ ParseModified \/ ParseModifiedFail
    \/ Compare \/ ReportEqual \/ ReportVariation
    \/ WriteDiff \/ WriteDiffFail
    \/ WriteOriginal \/ WriteOriginalFail
    \/ WriteModified \/ WriteModifiedFail

\* the whole script
Spec == Init /\ [][Next]_vars

NextWalk == WalkDir \/ WalkStatThrows \/ WalkDone
SpecWalk == InitWalk /\ [][NextWalk]_vars

NextPair == WalkDir \/ WalkDone \/ NextFile
SpecPair == InitPair /\ [][NextPair]_vars

NextDiff == Compare \/ ReportEqual \/ ReportVariation
SpecDiff == InitDiff /\ [][NextDiff]_vars
(***************************************************************************)
(* Properties                                                              *)
(***************************************************************************)
PositionKeys == {"start", "end", "loc", "line", "column"}

RECURSIVE StructEq(_, _)
\* a and b are the same tree once every position key, with all beneath it,
\* is left out of both
StructEq(a, b) ==
    IF a.t # b.t THEN FALSE
    ELSE IF a.t = "array"
    THEN /\ Len(a.vals) = Len(b.vals)
         /\ \A i \in 1..Len(a.vals) : StructEq(a.vals[i], b.vals[i])
    ELSE IF a.t = "object"
    THEN LET ka == {a.keys[i] : i \in 1..Len(a.keys)} \ PositionKeys
             kb == {b.keys[i] : i \in 1..Len(b.keys)} \ PositionKeys
         IN  /\ ka = kb
             /\ \A k \in ka : StructEq(Get(a, k), Get(b, k))
    ELSE a = b

RECURSIVE At(_, _)
\* the value at a structural path of v; undefined when the path leaves v
At(v, path) ==
    IF path = << >> THEN v
    ELSE IF v.t = "object" THEN At(Get(v, Head(path)), Tail(path))
    ELSE IF v.t = "array"
    THEN LET hits == {i \in 1..Len(v.vals) : IndexKey(i - 1) = Head(path)}
         IN  IF hits = {} THEN Undefined
             ELSE At(v.vals[CHOOSE i \in hits : TRUE], Tail(path))
    ELSE Undefined

ErrLinesOf(k) == {i \in 1..Len(stderr) : stderr[i].k = k}
OutLinesOf(k) == {i \in 1..Len(stdout) : stdout[i].k = k}
VariationReported(p) == \E i \in ErrLinesOf(MSG_VARIATION) : stderr[i].path = p

\* C1: position-insensitivity.  Whenever the two compared trees differ only
\* in what is stored at or beneath a key named start, end, loc, line or
\* column, at any depth, the comparison yields the no-differences value and
\* nothing is reported for the pair.
PositionInsensitive ==
    (pc # "diff" /\ StructEq(originalAst, modifiedAst))
        => (~differences.defined /\ differences.list = << >> /\ stderr = << >>)

\* C1's case: two different trees whose only difference is the loc of the
\* nested body node have been compared and reported
PositionInsensitiveWitness ==
    /\ pc = "pair"
    /\ originalAst # modifiedAst
    /\ StructEq(originalAst, modifiedAst)
    /\ Get(originalAst, "body").t = "object"
    /\ Get(modifiedAst, "body").t = "object"
    /\ Get(Get(originalAst, "body"), "loc").t = "number"
    /\ Get(Get(modifiedAst, "body"), "loc").t = "number"
    /\ Get(Get(originalAst, "body"), "loc") # Get(Get(modifiedAst, "body"), "loc")

\* a difference record whose path holds no position key and leads to subtrees
\* that differ structurally
ReachesDivergence(r) ==
    /\ \A i \in 1..Len(r.path) : r.path[i] \notin PositionKeys
    /\ ~StructEq(At(originalAst, r.path), At(modifiedAst, r.path))

\* C2: divergence detection.  Whenever the two compared trees differ in a
\* leaf value, a key or an array length outside the position keys, the
\* comparison yields a list holding a record whose path reaches the
\* divergence, and the report prints the variation line for the pair.
DivergenceDetected ==
    (pc # "diff" /\ ~StructEq(originalAst, modifiedAst))
        => /\ differences.defined
           /\ \E i \in 1..Len(differences.list) : ReachesDivergence(differences.list[i])
           /\ pc = "pair" => VariationReported(originalVersion)

\* C2's case: the trees differ in one nested leaf, and in a loc as well
DivergenceDetectedWitness ==
    /\ pc = "pair"
    /\ ~StructEq(originalAst, modifiedAst)
    /\ Get(originalAst, "loc") # Get(modifiedAst, "loc")
    /\ Len(differences.list) = 1
    /\ differences.list[1].kind = "E"
    /\ Len(differences.list[1].path) = 2

\* the two sides of a difference record: an array change keeps them in its item
OriginalSide(r) == IF r.kind = "A" THEN r.item.lhs ELSE r.lhs
ModifiedSide(r) == IF r.kind = "A" THEN r.item.rhs ELSE r.rhs
PositionPrinted(k, loc) == \E i \in ErrLinesOf(k) : stderr[i].loc = loc

\* C8: position reporting.  Once a variation has been reported, every
\* difference record of every kind whose original-side or modified-side
\* value carries a loc has that position printed.
EveryPositionReported ==
    (pc = "pair" /\ differences.defined)
        => \A i \in 1..Len(differences.list) :
              LET r == differences.list[i]
              IN  /\ Truthy(Get(OriginalSide(r), "loc"))
                        => PositionPrinted(MSG_ORIGINAL, Get(OriginalSide(r), "loc"))
                  /\ Truthy(Get(ModifiedSide(r), "loc"))
                        => PositionPrinted(MSG_MODIFIED, Get(ModifiedSide(r), "loc"))
\* the relative path every run of the pairing walks: t/x.js
PAIR_REL == TESTS_DIR \o <<SLASH>> \o X_JS

\* C3: pairing correctness.  For every original root and modified root, the
\* file found at t/x.js beneath the original root is paired with exactly the
\* normalized <modified root>/t/x.js, and when the two roots lead to
\* different directories the file is not paired with itself.
PairingCorrect ==
    pc = "parseOriginal"
        => /\ originalVersion = PathNormalize(originalSource \o <<SLASH>> \o PAIR_REL)
           /\ modifiedVersion = PathNormalize(modifiedSource \o <<SLASH>> \o PAIR_REL)
           /\ PathNormalize(originalSource \o <<SLASH>> \o PAIR_REL)
                  # PathNormalize(modifiedSource \o <<SLASH>> \o PAIR_REL)
                => modifiedVersion # originalVersion

\* the directories of the file system
DirsOf(f) == {p \in DOMAIN f : f[p].kind = "dir"}

\* the regular files whose name is a non-empty stem followed by .js
JsFilesOf(f) ==
    {p \in DOMAIN f :
        /\ f[p].kind = "file"
        /\ Len(BaseName(p)) > Len(JS_EXT)
        /\ Drop(p, Len(p) - Len(JS_EXT)) = JS_EXT}

\* directories not listed yet, plus one for the step that ends the loop
WalkMeasure ==
    Cardinality(DirsOf(fs)) - Cardinality(OutLinesOf("Searching for files and directories in"))
        + (IF pc = "walk" THEN 1 ELSE 0)

WalkInv ==
    /\ pc \in {"walk", "pair"}
    /\ WalkMeasure >= 0
    /\ pc = "walk" => (directories = << >> \/ CanReaddir(fs, Top(directories)))
    /\ pc = "pair"
        => /\ {files[i] : i \in 1..Len(files)} = JsFilesOf(fs)
           /\ \A i, j \in 1..Len(files) : files[i] = files[j] => i = j

\* C4: extension filter and tolerance of non-regular entries.  Over every
\* directory tree the walk never aborts or gets stuck, every step lists one
\* more directory so that it ends, and when it has ended the list holds, once
\* each, exactly the regular files with extension .js at any depth: no
\* directory, no file with another extension, no non-regular entry.
WalkFindsJsFiles == WalkInv /\ [][WalkInv' /\ WalkMeasure' < WalkMeasure]_vars

ErrLinesOfSeq(k) == SelectSeq(stderr, LAMBDA l : l.k = k)
OutLinesOfSeq(k) == SelectSeq(stdout, LAMBDA l : l.k = k)
FatalParseOrWrite == ErrLinesOf(ERR_PARSE) \cup ErrLinesOf(ERR_WRITE)
AnyFatal == FatalParseOrWrite \cup ErrLinesOf(ERR_ACCESS)
Stopped == pc \in {"done", "exited"}

\* a parse or write failure has been reported: it is the last thing reported,
\* and the process has exited with status 1
FatalStopsInv ==
    FatalParseOrWrite # {}
        => /\ pc = "exited"
           /\ exitCode = 1
           /\ FatalParseOrWrite = {Len(stderr) - 1}
           /\ stderr[Len(stderr)].k = ERR_EXCEPTION

\* a step at a failing parse or a failing write exits and touches nothing
\* else, and no step follows an exit
FatalStopsStep ==
    /\ pc = "exited" => UNCHANGED vars
    /\ (pc = "parseOriginal" /\ ~ParseFile(fs, originalVersion).ok)
          => /\ pc' = "exited"
             /\ stderr' = stderr \o FatalLines(ERR_PARSE, originalVersion)
             /\ UNCHANGED <<fs, idx, originalAst, modifiedAst, differences, written, stdout>>
    /\ (pc = "parseModified" /\ ~ParseFile(fs, modifiedVersion).ok)
          => /\ pc' = "exited"
             /\ stderr' = stderr \o FatalLines(ERR_PARSE, modifiedVersion)
             /\ UNCHANGED <<fs, idx, originalAst, modifiedAst, differences, written, stdout>>
    /\ (ErrLinesOf(ERR_WRITE) = {} /\ ErrLinesOf(ERR_WRITE)' # {})
          => /\ pc' = "exited"
             /\ UNCHANGED <<fs, idx, originalAst, modifiedAst, differences, written, stdout>>

\* C5: fatal on first error.  Once a parse of either side fails (invalid
\* text, or a missing or unreadable file) or one of the three writes fails,
\* the run exits with status 1; after that no pair is read, parsed, compared,
\* reported or persisted, and no further write of the current pair is made.
FatalStops == FatalStopsInv /\ [][FatalStopsInv' /\ FatalStopsStep]_vars

\* C5's case: the second write of a pair failed while another file was
\* still waiting
FatalStopsWitness ==
    /\ pc = "exited"
    /\ ErrLinesOf(ERR_WRITE) # {}
    /\ Len(written) = 1
    /\ idx < Len(files)

\* every file found has been paired and compared, in order
AllCompared ==
    /\ [i \in 1..Len(files) |-> OutLinesOfSeq("originalVersion")[i].path] = files
    /\ Len(OutLinesOfSeq("originalVersion")) = Len(files)
    /\ Len(OutLinesOfSeq("JSON.stringify(differences)")) = Len(files)

\* the steps one file still has before it: 9 at the loop head, down to 2
\* at the last write
StepsLeft ==
    CASE pc = "pair" -> 9
      [] pc = "parseOriginal" -> 8
      [] pc = "parseModified" -> 7
      [] pc = "diff" -> 6
      [] pc = "report" -> 5
      [] pc = "writeDiff" -> 4
      [] pc = "writeOriginal" -> 3
      [] pc = "writeModified" -> 2
      [] OTHER -> 0

\* a bound on the steps a run still has: during the walk the directories
\* not listed yet, on top of the steps every .js file may need; after it the
\* steps of the files not processed yet; none once the process has stopped
RunMeasure ==
    IF Stopped THEN 0
    ELSE IF pc = "walk"
    THEN 10 * (Cardinality(JsFilesOf(fs)) + 1) + 2 + Cardinality(DirsOf(fs))
            - Cardinality(OutLinesOf("Searching for files and directories in"))
    ELSE 10 * (Len(files) - idx + 1) + StepsLeft

RunInv ==
    /\ pc \in {"walk", "pair", "parseOriginal", "parseModified", "diff", "report",
               "writeDiff", "writeOriginal", "writeModified", "done", "exited"}
    /\ exitCode \in {-1, 0, 1}
    /\ exitCode # -1 <=> Stopped
    /\ exitCode = 1 <=> AnyFatal # {}
    /\ pc = "exited" => exitCode = 1
    /\ pc = "done" => exitCode = 0 /\ AllCompared
    /\ RunMeasure >= 0
    /\ RunMeasure = 0 <=> Stopped

\* C6: divergence is not an error.  Every run stops (each step lowers a
\* bound on the steps left, which is zero only once the process has
\* stopped); the exit status is non-zero exactly when a directory listing, a
\* parse or a write failed; a run without such a failure ends with status 0
\* after every file found was parsed and compared, however many pairs
\* diverged.
RunCompletes == RunInv /\ [][RunInv' /\ RunMeasure' < RunMeasure]_vars

\* the counterpart a file of the original tree o/... must have: m/...
ExpectedModified(p) == MOD_ROOT \o Drop(p, Len(ORIG_ROOT))

\* the artifacts written for the divergent pairs processed so far: three for
\* each, at <original>.ast.diff, <original>.ast and <modified>.ast
DebugPersistenceInv ==
    debug =>
        LET v == ErrLinesOfSeq(MSG_VARIATION)
            Completed(k) == k < Len(v) \/ pc \in {"pair", "done"}
        IN  /\ Len(written) <= 3 * Len(v)
            /\ \A k \in 1..Len(v) : Completed(k) =>
                  /\ Len(written) >= 3 * k
                  /\ written[3 * k - 2] =
                        WriteRecord(v[k].path \o AST_OUT_EXT \o AST_DIFF_EXT, "differences")
                  /\ written[3 * k - 1] =
                        WriteRecord(v[k].path \o AST_OUT_EXT, "originalAst")
                  /\ written[3 * k] =
                        WriteRecord(ExpectedModified(v[k].path) \o AST_OUT_EXT, "modifiedAst")

\* a step that writes makes one write; the path written then leads to the
\* regular file that holds what was written, or to the device that was there
\* before, and no other entry of the file system has changed
DebugPersistenceStep ==
    written' # written =>
        /\ written' = Append(written, written'[Len(written')])
        /\ LET w == written'[Len(written')]
               r == RealPath(fs', w.path)
           IN  /\ Exists(fs', r)
               /\ \/ fs'[r] = FileEntry(JsonStringify(w.what))
                  \/ fs'[r] = DeviceEntry /\ fs' = fs
               /\ \A q \in (DOMAIN fs \cup DOMAIN fs') \ {r} :
                     q \in DOMAIN fs /\ q \in DOMAIN fs' /\ fs'[q] = fs[q]

ComparedFile(i) == stdout[i - 2].path

WriteFrameInv ==
    /\ ~debug => /\ written = << >>
                 /\ Len(ErrLinesOfSeq(MSG_HINT)) = Len(ErrLinesOfSeq(MSG_VARIATION))
    /\ debug => ErrLinesOf(MSG_HINT) = {}
    /\ written # << >> => ErrLinesOf(MSG_VARIATION) # {}
    /\ \A i \in OutLinesOf("JSON.stringify(differences)") :
          /\ stdout[i - 2].k = "originalVersion"
          /\ ~stdout[i].diff.defined
                => /\ ~VariationReported(ComparedFile(i))
                   /\ \A j \in 1..Len(written) :
                         written[j].path \notin
                             {ComparedFile(i) \o AST_OUT_EXT \o AST_DIFF_EXT,
                              ComparedFile(i) \o AST_OUT_EXT,
                              ExpectedModified(ComparedFile(i)) \o AST_OUT_EXT}

WriteFrameStep ==
    /\ (written' # written \/ fs' # fs)
          => /\ debug
             /\ differences.defined
             /\ pc \in {"writeDiff", "writeOriginal", "writeModified"}
             /\ VariationReported(originalVersion)
    /\ (pc = "report" /\ ~differences.defined) => UNCHANGED <<stderr, written, fs>>
    /\ (pc = "report" /\ differences.defined /\ ~debug)
          => /\ stderr'[Len(stderr')] = ErrLine(MSG_HINT, << >>, Undefined)
             /\ UNCHANGED <<written, fs>>

\* C9: write frame.  A file is written only while a pair whose comparison
\* found differences is processed with the debug option; an equal pair
\* prints no variation line and writes nothing whatever the option; a
\* divergent pair without the option writes nothing and prints the hint.
WriteFrame == WriteFrameInv /\ [][WriteFrameInv' /\ WriteFrameStep]_vars

\* C9's case: a run without the debug option ended after one pair compared
\* equal and another diverged
WriteFrameWitness ==
    /\ ~debug
    /\ pc = "done"
    /\ Cardinality(ErrLinesOf(MSG_VARIATION)) = 1
    /\ \E i \in OutLinesOf("JSON.stringify(differences)") : ~stdout[i].diff.defined

\* C10: a discovery error precedes all comparison.  Listing a directory that
\* cannot be listed, configured or nested, is never retried or skipped: the
\* run exits with status 1, and as the whole walk comes before the first
\* parse, nothing was parsed, compared, reported or written, even for the
\* files other directories had already given.
DiscoveryErrorFirst ==
    /\ \A i \in OutLinesOf("Searching for files and directories in") :
          ~CanReaddir(fs, stdout[i].path)
              => stderr = FatalLines(ERR_ACCESS, stdout[i].path)
    /\ ErrLinesOf(ERR_ACCESS) # {}
          => /\ pc = "exited"
             /\ exitCode = 1
             /\ \E p \in DOMAIN fs \cup {directories[i] : i \in 1..Len(directories)}
                       \cup {stdout[i].path : i \in 1..Len(stdout)} :
                    ~CanReaddir(fs, p) /\ stderr = FatalLines(ERR_ACCESS, p)
             /\ OutLinesOf("originalVersion") = {}
             /\ OutLinesOf("JSON.stringify(differences)") = {}
             /\ originalAst = Undefined
             /\ modifiedAst = Undefined
             /\ ~differences.defined
             /\ written = << >>
    /\ OutLinesOf("originalVersion") # {} => directories = << >>

\* C10's case: a nested directory could not be listed after a file had been found
DiscoveryErrorFirstWitness ==
    /\ ErrLinesOf(ERR_ACCESS) # {}
    /\ files # << >>
    /\ stderr[1].path = PathJoin(PathJoin(ORIG_ROOT, SubdirNames[1]), NESTED_DIR)
====
